---- MODULE Spec2Model ----
(***************************************************************************)
(* imagecfg: translation of an OSBuild blueprint into named blocks of bash *)
(* commands (the generators and generateBashScript), the 'bash' command    *)
(* that prints them as one script, and the 'apply' command that runs each  *)
(* block as a temporary script of its own.                                 *)
(*                                                                         *)
(* A Go string is modelled as the sequence of its words: the empty string  *)
(* is <<>>, a blank inside a format string is a word boundary, and the     *)
(* separators " && ", "\n", "||", "|" and "," are words of their own, so   *)
(* that strings.Join, the concatenations and bash's reading of the text    *)
(* are computed on the text and not assumed.  A nil pointer is <<>>, a     *)
(* pointer to v is <<v>>.                                                  *)
(***************************************************************************)
EXTENDS Integers, Sequences, FiniteSets, TLC

VARIABLES
    bp,                  \* the parsed blueprint (accessor results), read-only
    genFails,            \* categories whose generator returns a non-nil error
    broken,              \* external tools that exit non-zero whenever they run
    sys,                 \* the target system: groups, users, chrony.conf, commands
    run,                 \* number of imagecfg invocations started so far
    history,             \* [mode, ret] of the invocations that have returned
    mode,                \* the subcommand of the current invocation
    pc,                  \* position inside the current invocation
    gi,                  \* generateBashScript: index into blockGenerators
    calls,               \* generateBashScript: generators called, in order
    namedCommandBlocks,  \* generateBashScript: the local accumulator
    header,              \* first result of generateBashScript, as received
    namedBlocks,         \* second result of generateBashScript, as received
    bi,                  \* applyCmd: index of the block of the loop
    files,               \* temporary script files that exist: name -> file
    deferred,            \* applyCmd: names whose removal is deferred
    ran,                 \* applyCmd: [name, exit] of every script executed
    trace,               \* statements executed by the scripts of this run
    stdout,              \* what the invocation printed on standard output
    stderr,              \* what the invocation printed on standard error
    ret                  \* what RunE returned: "none", "ok" or an error

vars == <<bp, genFails, broken, sys, run, history, mode, pc, gi, calls,
          namedCommandBlocks, header, namedBlocks, bi, files, deferred, ran,
          trace, stdout, stderr, ret>>

\* Bounds of the model.
MaxRuns == 2
MaxFaults == 1

-----------------------------------------------------------------------------
(* Strings as word sequences *)

NL == "\n"
AND == "&&"
OR == "||"
PIPE == "|"

RECURSIVE Join(_, _)
\* strings.Join(elems, sep)
Join(elems, sep) ==
    IF elems = <<>> THEN <<>>
    ELSE IF Len(elems) = 1 THEN elems[1]
    ELSE elems[1] \o sep \o Join(Tail(elems), sep)

\* a []string whose elements are single words, as a sequence of strings
Strs(ws) == [i \in DOMAIN ws |-> <<ws[i]>>]

\* fmt.Sprintf("%d", n)
FmtD(n) == ToString(n)

RECURSIVE Split(_, _)
\* the pieces of s between the occurrences of the word sep
Split(s, sep) ==
    IF \A i \in DOMAIN s : s[i] # sep THEN <<s>>
    ELSE LET k == CHOOSE i \in DOMAIN s : s[i] = sep /\ \A j \in 1..(i-1) : s[j] # sep
         IN  <<SubSeq(s, 1, k-1)>> \o Split(SubSeq(s, k+1, Len(s)), sep)

\* strings.TrimSpace(s) == ""
IsBlank(s) == \A i \in DOMAIN s : s[i] = NL

-----------------------------------------------------------------------------
(* Block generators *)

generateHostnameCmd_noEmptyTest(b) ==
    IF b.hostname = <<>> THEN <<>>
    ELSE <<"echo", "'", b.hostname[1], "'", ">", "/etc/hostname">>

generateHostnameCmd(b) ==
    IF b.hostname = <<>> \/ b.hostname[1] = "" THEN <<>>
    ELSE <<"echo", "'", b.hostname[1], "'", ">", "/etc/hostname">>

ntpCmds(ntp) ==
    << <<"sed", "-i", "'/^server", ntp, "/d'", "/etc/chrony.conf">>,
       <<"echo", "'server", ntp, "iburst'", ">>", "/etc/chrony.conf">> >>

RECURSIVE ntpLoop(_)
ntpLoop(ntpservers) ==
    IF ntpservers = <<>> THEN <<>>
    ELSE ntpCmds(Head(ntpservers)) \o ntpLoop(Tail(ntpservers))

generateTimezoneCmd(b) ==
    LET cmds0 == IF b.timezone # <<>> /\ b.timezone[1] # ""
                 THEN << <<"timedatectl", "set-timezone", b.timezone[1]>> >>
                 ELSE <<>>
        cmds  == IF Len(b.ntpServers) > 0 THEN cmds0 \o ntpLoop(b.ntpServers)
                 ELSE cmds0
    IN  Join(cmds, <<AND>>)

generateLocaleCmd(b) ==
    LET c1 == IF b.locale # <<>> /\ b.locale[1] # ""
              THEN << <<"localectl", "set-locale", "LANG=", b.locale[1]>> >>
              ELSE <<>>
        c2 == IF b.keyboard # <<>> /\ b.keyboard[1] # ""
              THEN << <<"localectl", "set-keymap", b.keyboard[1]>> >>
              ELSE <<>>
        cmds == c1 \o c2
    IN  IF Len(cmds) = 0 THEN <<>> ELSE Join(cmds, <<AND>>)

\* groupadd without the getent guard
safeAddCmd_unguarded(group) ==
    IF group.gid # <<>>
    THEN <<"groupadd", "--gid", FmtD(group.gid[1]), group.name>>
    ELSE <<"groupadd", group.name>>

safeAddCmd(group) ==
    LET groupaddBase == IF group.gid # <<>>
                        THEN <<"groupadd", "--gid", FmtD(group.gid[1])>>
                        ELSE <<"groupadd">>
        groupaddCmd == groupaddBase \o <<group.name>>
    IN  <<"(", "getent", "group", group.name, ">", "/dev/null", OR>>
            \o groupaddCmd \o <<")">>

generateGroupsBlockCmd(b) ==
    IF Len(b.groups) = 0 THEN <<>>
    ELSE Join([i \in DOMAIN b.groups |-> safeAddCmd(b.groups[i])], <<NL>>)

useraddFullCmd(user) ==
    <<"useradd">>
      \o (IF user.home # <<>> /\ user.home[1] # ""
          THEN <<"-d", user.home[1], "-m">> ELSE <<"-m">>)
      \o (IF user.shell # <<>> /\ user.shell[1] # ""
          THEN <<"-s", user.shell[1]>> ELSE <<>>)
      \o (IF user.uid # <<>> THEN <<"-u", FmtD(user.uid[1])>> ELSE <<>>)
      \o (IF user.gid # <<>> THEN <<"-g", FmtD(user.gid[1])>> ELSE <<>>)

homeDirOf(user) ==
    IF user.home # <<>> /\ user.home[1] # "" THEN <<user.home[1]>>
    ELSE <<"/home/", user.name>>

sshCmd(user) ==
    LET homeDir == homeDirOf(user)
    IN  <<"mkdir", "-p">> \o homeDir \o <<"/.ssh", AND,
          "echo", "'", user.key[1], "'", PIPE, "tee">> \o homeDir
          \o <<"/.ssh/authorized_keys", ">", "/dev/null", AND,
               "chmod", "700">> \o homeDir \o <<"/.ssh", AND,
               "chmod", "600">> \o homeDir \o <<"/.ssh/authorized_keys", AND,
               "chown", "-R", user.name, ":", user.name>> \o homeDir
          \o <<"/.ssh">>

singleUserCmds(user) ==
    << <<"(", "getent", "passwd", user.name, ">", "/dev/null", OR>>
           \o useraddFullCmd(user) \o <<")">> >>
      \o (IF Len(user.groups) > 0
          THEN << <<"usermod", "-aG">> \o Join(Strs(user.groups), <<",">>)
                     \o <<user.name>> >>
          ELSE <<>>)
      \o (IF user.password # <<>> /\ user.password[1] # ""
          THEN << <<"echo", "'", user.name, ":", user.password[1], "'",
                    PIPE, "chpasswd", "-e">> >>
          ELSE <<>>)
      \o (IF user.key # <<>> /\ user.key[1] # ""
          THEN << sshCmd(user) >> ELSE <<>>)

generateUsersBlockCmd(b) ==
    IF Len(b.users) = 0 THEN <<>>
    ELSE Join([i \in DOMAIN b.users |->
                   Join(singleUserCmds(b.users[i]), <<AND>>)], <<NL>>)

\* the service rules placed before the port rules
generateFirewallCmd_servicesFirst(b) ==
    IF b.firewall = <<>> THEN <<>>
    ELSE LET fwCustom == b.firewall[1]
             portCmds == IF Len(fwCustom.ports) > 0
                         THEN [i \in DOMAIN fwCustom.ports |->
                                 <<"firewall-offline-cmd", "--add-port=",
                                   fwCustom.ports[i]>>]
                         ELSE <<>>
             svcCmds == IF fwCustom.services # <<>>
                           /\ Len(fwCustom.services[1].enabled) > 0
                        THEN [i \in DOMAIN fwCustom.services[1].enabled |->
                                 <<"firewall-offline-cmd", "--add-service=",
                                   fwCustom.services[1].enabled[i]>>]
                        ELSE <<>>
             fwRuleCmds == svcCmds \o portCmds
         IN  IF Len(fwRuleCmds) = 0 THEN <<>> ELSE Join(fwRuleCmds, <<AND>>)

generateFirewallCmd(b) ==
    IF b.firewall = <<>> THEN <<>>
    ELSE LET fwCustom == b.firewall[1]
             portCmds == IF Len(fwCustom.ports) > 0
                         THEN [i \in DOMAIN fwCustom.ports |->
                                 <<"firewall-offline-cmd", "--add-port=",
                                   fwCustom.ports[i]>>]
                         ELSE <<>>
             svcCmds == IF fwCustom.services # <<>>
                           /\ Len(fwCustom.services[1].enabled) > 0
                        THEN [i \in DOMAIN fwCustom.services[1].enabled |->
                                 <<"firewall-offline-cmd", "--add-service=",
                                   fwCustom.services[1].enabled[i]>>]
                        ELSE <<>>
             fwRuleCmds == portCmds \o svcCmds
         IN  IF Len(fwRuleCmds) = 0 THEN <<>> ELSE Join(fwRuleCmds, <<AND>>)

generateServicesCmd(b) ==
    IF b.services = <<>> THEN <<>>
    ELSE LET svcCustom == b.services[1]
             systemctl(verb, list) ==
                 [i \in DOMAIN list |-> <<"systemctl", verb, list[i]>>]
             serviceManagementCmds ==
                 systemctl("enable", svcCustom.enabled)
                   \o systemctl("disable", svcCustom.disabled)
                   \o systemctl("mask", svcCustom.masked)
         IN  IF Len(serviceManagementCmds) = 0 THEN <<>>
             ELSE Join(serviceManagementCmds, <<AND>>)

generatePackagesCmd(b) ==
    IF Len(b.packages) = 0 THEN <<>>
    ELSE <<"dnf", "install", "-y">> \o Join(Strs(b.packages), <<>>)

-----------------------------------------------------------------------------
(* generateBashScript *)

scriptHeader_noErrexit ==
    <<"#!/bin/bash", NL, "set", "-uf", "-o", "pipefail", NL, NL>>

scriptHeader ==
    <<"#!/bin/bash", NL, "set", "-euf", "-o", "pipefail", NL, NL>>

blockGenerators_usersFirst ==
    <<"Packages", "Hostname", "Timezone", "Locale",
      "Users", "Groups", "Firewall", "Services">>

blockGenerators_packagesLast ==
    <<"Hostname", "Timezone", "Locale", "Groups",
      "Users", "Firewall", "Services", "Packages">>

blockGenerators ==
    <<"Packages", "Hostname", "Timezone", "Locale",
      "Groups", "Users", "Firewall", "Services">>

\* blk.generator(bp) for the entry of blockGenerators called name
generator(name, b) ==
    CASE name = "Packages" -> generatePackagesCmd(b)
      [] name = "Hostname" -> generateHostnameCmd(b)
      [] name = "Timezone" -> generateTimezoneCmd(b)
      [] name = "Locale"   -> generateLocaleCmd(b)
      [] name = "Groups"   -> generateGroupsBlockCmd(b)
      [] name = "Users"    -> generateUsersBlockCmd(b)
      [] name = "Firewall" -> generateFirewallCmd(b)
      [] name = "Services" -> generateServicesCmd(b)

-----------------------------------------------------------------------------
(* The target system and bash, as far as the generated scripts use them *)

\* External programs the scripts call that may exit non-zero for a reason of
\* their own.  getent is a lookup: it reports whether the entry exists.
Tools ==
    {"dnf", "echo", "timedatectl", "sed", "localectl", "groupadd", "useradd",
     "usermod", "chpasswd", "mkdir", "tee", "chmod", "chown",
     "firewall-offline-cmd", "systemctl"}

RECURSIVE operands(_, _, _)
\* the operands of a command line: the words left once the options in flags
\* and the options in withArg, each with its argument, are taken away
operands(ws, withArg, flags) ==
    IF ws = <<>> THEN <<>>
    ELSE IF Head(ws) \in withArg
         THEN operands(SubSeq(ws, 3, Len(ws)), withArg, flags)
    ELSE IF Head(ws) \in flags THEN operands(Tail(ws), withArg, flags)
    ELSE <<Head(ws)>> \o operands(Tail(ws), withArg, flags)

\* groupadd [--gid N] NAME, with its operands ops
ExecGroupadd(s, brk, ops) ==
    IF "groupadd" \notin brk /\ Len(ops) = 1 /\ ops[1] \notin s.groups
    THEN [ok |-> TRUE, sys |-> [s EXCEPT !.groups = @ \cup {ops[1]}]]
    ELSE [ok |-> FALSE, sys |-> s]

\* useradd [-d HOME] [-m] [-s SHELL] [-u UID] [-g GID] LOGIN, with its operands
ExecUseradd(s, brk, ops) ==
    IF "useradd" \notin brk /\ Len(ops) = 1 /\ ops[1] \notin s.users
    THEN [ok |-> TRUE, sys |-> [s EXCEPT !.users = @ \cup {ops[1]}]]
    ELSE [ok |-> FALSE, sys |-> s]

\* the characters of a host name
Chars(w) ==
    CASE w = "pool.ntp.org" ->
           <<"p", "o", "o", "l", ".", "n", "t", "p", ".", "o", "r", "g">>
      [] w = "ntp-1.lan" -> <<"n", "t", "p", "-", "1", ".", "l", "a", "n">>
      [] w = "ntp.1.lan" -> <<"n", "t", "p", ".", "1", ".", "l", "a", "n">>
      [] w = "time.example.org" ->
           <<"t", "i", "m", "e", ".", "e", "x", "a", "m", "p", "l", "e", ".",
             "o", "r", "g">>
      [] OTHER -> <<w>>

\* the text is matched, from its first to its last character, by the regular
\* expression re: a dot matches any character, another character itself
RegexMatches(re, text) ==
    /\ Len(re) = Len(text)
    /\ \A i \in DOMAIN re : re[i] = "." \/ re[i] = text[i]

\* sed -i '/^server NTP /d' /etc/chrony.conf
IsSedChrony(cmd) ==
    /\ Len(cmd) = 6
    /\ cmd[1] = "sed" /\ cmd[2] = "-i" /\ cmd[3] = "'/^server"
    /\ cmd[5] = "/d'" /\ cmd[6] = "/etc/chrony.conf"

\* the address /^server NTP / selects the line: it begins with the word
\* server, then a word the expression NTP matches, then a blank
SedSelects(cmd, line) ==
    /\ Len(line) >= 3
    /\ line[1] = "server"
    /\ RegexMatches(Chars(cmd[4]), Chars(line[2]))

\* echo 'server NTP iburst' >> /etc/chrony.conf
IsAppendChrony(cmd) ==
    /\ Len(cmd) = 6
    /\ cmd[1] = "echo" /\ cmd[2] = "'server" /\ cmd[4] = "iburst'"
    /\ cmd[5] = ">>" /\ cmd[6] = "/etc/chrony.conf"

\* sed deletes the selected lines of chrony.conf; echo appends one line
ExecChrony(cmd, s, brk) ==
    IF cmd[1] \in brk THEN [ok |-> FALSE, sys |-> s]
    ELSE IF IsSedChrony(cmd)
    THEN [ok |-> TRUE,
          sys |-> [s EXCEPT !.chrony = SelectSeq(@, LAMBDA line :
                                                     ~SedSelects(cmd, line)),
                            !.applied = @ \cup {cmd}]]
    ELSE [ok |-> TRUE,
          sys |-> [s EXCEPT !.chrony = Append(@, <<"server", cmd[3], "iburst">>),
                            !.applied = @ \cup {cmd}]]

\* one simple command: [ok, sys]
ExecSimple(cmd, s, brk) ==
    CASE cmd[1] = "getent" ->
           [ok  |-> \/ (cmd[2] = "group" /\ cmd[3] \in s.groups)
                    \/ (cmd[2] = "passwd" /\ cmd[3] \in s.users),
            sys |-> s]
      [] cmd[1] = "groupadd" ->
           ExecGroupadd(s, brk, operands(Tail(cmd), {"--gid"}, {}))
      [] cmd[1] = "useradd" ->
           ExecUseradd(s, brk,
                       operands(Tail(cmd), {"-d", "-s", "-u", "-g"}, {"-m"}))
      [] IsSedChrony(cmd) \/ IsAppendChrony(cmd) -> ExecChrony(cmd, s, brk)
      [] OTHER ->
           IF cmd[1] \in brk THEN [ok |-> FALSE, sys |-> s]
           ELSE [ok |-> TRUE, sys |-> [s EXCEPT !.applied = @ \cup {cmd}]]

RECURSIVE RunPipeline(_, _, _, _)
\* the first command of a pipeline has run with result r, the others with rest
PipelineResult(cmds, r, rest, opts) ==
    [ok   |-> IF Len(cmds) = 1 THEN r.ok
              ELSE IF opts.pipefail THEN r.ok /\ rest.ok ELSE rest.ok,
     sys  |-> rest.sys,
     cmds |-> <<[cmd |-> Head(cmds), ok |-> r.ok]>> \o rest.cmds]

PipelineStep(cmds, r, brk, opts) ==
    PipelineResult(cmds, r, RunPipeline(Tail(cmds), r.sys, brk, opts), opts)

\* cmds: the commands of a pipeline c1 | c2 | ... ; [ok, sys, cmds]
RunPipeline(cmds, s, brk, opts) ==
    IF cmds = <<>> THEN [ok |-> TRUE, sys |-> s, cmds |-> <<>>]
    ELSE PipelineStep(cmds, ExecSimple(Head(cmds), s, brk), brk, opts)

RECURSIVE RunOrList(_, _, _, _)
OrListResult(r, rest) ==
    [ok |-> rest.ok, sys |-> rest.sys, cmds |-> r.cmds \o rest.cmds]

\* the first pipeline of an || list has run with result r
OrListStep(pipes, r, brk, opts) ==
    IF r.ok \/ Len(pipes) = 1 THEN r
    ELSE OrListResult(r, RunOrList(Tail(pipes), r.sys, brk, opts))

\* pipes: the pipelines of a list p1 || p2 || ... ; [ok, sys, cmds]
RunOrList(pipes, s, brk, opts) ==
    OrListStep(pipes, RunPipeline(Split(Head(pipes), PIPE), s, brk, opts),
               brk, opts)

\* the || list a statement of an && chain is: the inside of a subshell
\* ( ... ), or the statement itself
orListOf(stmt) ==
    IF stmt[1] = "(" /\ stmt[Len(stmt)] = ")"
    THEN Split(SubSeq(stmt, 2, Len(stmt) - 1), OR)
    ELSE <<stmt>>

\* one statement of an && chain
RunStmt(stmt, s, brk, opts) == RunOrList(orListOf(stmt), s, brk, opts)

RECURSIVE RunChain(_, _, _, _, _)
ChainEntry(stmt, r) == [stmt |-> stmt, ok |-> r.ok, cmds |-> r.cmds]

ChainResult(e, rest) == [rest EXCEPT !.log = <<e>> \o @]

\* statement k of an && chain has run with result r
ChainStep(stmts, k, r, brk, opts) ==
    IF ~r.ok
    THEN [ok |-> FALSE, sys |-> r.sys, log |-> <<ChainEntry(stmts[k], r)>>,
          failedAt |-> k]
    ELSE ChainResult(ChainEntry(stmts[k], r),
                     RunChain(stmts, k + 1, r.sys, brk, opts))

\* stmts[k..]: the rest of a list s1 && s2 && ... ; [ok, sys, log, failedAt]
RunChain(stmts, k, s, brk, opts) ==
    IF k > Len(stmts) THEN [ok |-> TRUE, sys |-> s, log |-> <<>>, failedAt |-> 0]
    ELSE ChainStep(stmts, k, RunStmt(stmts[k], s, brk, opts), brk, opts)

\* the single-letter option words that switch errexit on
ErrexitWords == {"-e", "-eu", "-euf", "-ef"}

\* the shell options after the builtin: set ...
setOptions(opts, line) ==
    [errexit  |-> opts.errexit \/ \E i \in DOMAIN line : line[i] \in ErrexitWords,
     pipefail |-> opts.pipefail
                    \/ \E i \in 1..(Len(line) - 1) :
                          line[i] = "-o" /\ line[i+1] = "pipefail"]

\* errexit ends the shell after a list that failed, but only when the command
\* that failed is the one after the last && of the list
exits(st, r, n) == ~r.ok /\ st.opts.errexit /\ r.failedAt = n

afterList(st, r) == [st EXCEPT !.sys = r.sys, !.ok = r.ok, !.log = @ \o r.log]

RECURSIVE RunLines(_, _, _, _)
\* the && list of n statements on line k has run with result r
LineStep(lines, k, st, r, n, brk) ==
    IF exits(st, r, n) THEN afterList(st, r)
    ELSE RunLines(lines, k + 1, afterList(st, r), brk)

\* the && list on line k
RunLine(lines, k, st, chain, brk) ==
    LineStep(lines, k, st, RunChain(chain, 1, st.sys, brk, st.opts),
             Len(chain), brk)

\* bash reading lines[k..] of a script; st = [sys, opts, ok, log]
RunLines(lines, k, st, brk) ==
    IF k > Len(lines) THEN st
    ELSE IF lines[k] = <<>> \/ lines[k][1] = "#!/bin/bash"
    THEN RunLines(lines, k + 1, st, brk)
    ELSE IF lines[k][1] = "set"
    THEN RunLines(lines, k + 1,
                  [st EXCEPT !.opts = setOptions(@, lines[k])], brk)
    ELSE RunLine(lines, k, st, Split(lines[k], AND), brk)

exitStatus(st) == [exit |-> IF st.ok THEN 0 ELSE 1, sys |-> st.sys, log |-> st.log]

\* exec of a script file: [exit, sys, log]
RunScript(script, s, brk) ==
    exitStatus(RunLines(Split(script, NL), 1,
                        [sys |-> s, ok |-> TRUE, log |-> <<>>,
                         opts |-> [errexit |-> FALSE, pipefail |-> FALSE]], brk))

-----------------------------------------------------------------------------
(* The commands: cobra's RunE of 'bash' and of 'apply' *)

Nil == [returned |-> TRUE, err |-> <<>>]
Errorf(msg) == [returned |-> TRUE, err |-> msg]
NotReturned == [returned |-> FALSE, err |-> <<>>]

\* the state of a process that has just been started with subcommand m
Begin(m) ==
    /\ mode' = m
    /\ run' = run + 1
    /\ pc' = "load"
    /\ gi' = 1
    /\ calls' = <<>>
    /\ namedCommandBlocks' = <<>>
    /\ header' = <<>>
    /\ namedBlocks' = <<>>
    /\ bi' = 0
    /\ files' = <<>>
    /\ deferred' = <<>>
    /\ ran' = <<>>
    /\ trace' = <<>>
    /\ stdout' = <<>>
    /\ stderr' = <<>>
    /\ ret' = NotReturned
    /\ UNCHANGED <<bp, genFails, broken, sys>>

\* RunE returns r: the process ends
Return(r) ==
    /\ ret' = r
    /\ pc' = "done"
    /\ history' = Append(history, [mode |-> mode, ret |-> r])

InvokeBash ==
    /\ pc = "idle"
    /\ Begin("bash")
    /\ UNCHANGED history

InvokeApply ==
    /\ pc = "idle"
    /\ Begin("apply")
    /\ UNCHANGED history

\* the same blueprint is applied once more on the same system
Reapply ==
    /\ pc = "done"
    /\ run < MaxRuns
    /\ Begin("apply")
    /\ UNCHANGED history

\* loadBlueprint succeeds
LoadOk ==
    /\ pc = "load"
    /\ pc' = "gen"
    /\ UNCHANGED <<bp, genFails, broken, sys, run, history, mode, gi, calls,
                   namedCommandBlocks, header, namedBlocks, bi, files,
                   deferred, ran, trace, stdout, stderr, ret>>

\* loadBlueprint fails: missing file, malformed TOML or unknown keys
LoadFail ==
    /\ pc = "load"
    /\ Return(Errorf(<<"error loading blueprint">>))
    /\ UNCHANGED <<bp, genFails, broken, sys, run, mode, gi, calls,
                   namedCommandBlocks, header, namedBlocks, bi, files,
                   deferred, ran, trace, stdout, stderr>>

\* the wrapping of a generation error by the command
genErrorPrefix ==
    IF mode = "bash" THEN <<"error generating bash script:">>
    ELSE <<"error generating command blocks:">>

\* the loop going on to the next generator after an error
GenStep_ignoreError ==
    /\ pc = "gen"
    /\ gi <= Len(blockGenerators)
    /\ calls' = Append(calls, blockGenerators[gi])
    /\ gi' = gi + 1
    /\ namedCommandBlocks' =
          IF blockGenerators[gi] \notin genFails
             /\ generator(blockGenerators[gi], bp) # <<>>
          THEN Append(namedCommandBlocks,
                      [Name |-> blockGenerators[gi],
                       Commands |-> generator(blockGenerators[gi], bp)])
          ELSE namedCommandBlocks
    /\ UNCHANGED <<bp, genFails, broken, sys, run, history, mode, pc, header,
                   namedBlocks, bi, files, deferred, ran, trace, stdout,
                   stderr, ret>>

\* one iteration of the loop over blockGenerators
GenStep ==
    /\ pc = "gen"
    /\ gi <= Len(blockGenerators)
    /\ LET name   == blockGenerators[gi]
           err    == name \in genFails
           cmdStr == IF err THEN <<>> ELSE generator(name, bp)
       IN  /\ calls' = Append(calls, name)
           /\ IF err
              THEN /\ Return(Errorf(genErrorPrefix
                                \o <<"could not generate commands for", name, ":">>))
                   /\ UNCHANGED <<gi, namedCommandBlocks>>
              ELSE /\ gi' = gi + 1
                   /\ namedCommandBlocks' =
                        IF cmdStr # <<>>
                        THEN Append(namedCommandBlocks,
                                    [Name |-> name, Commands |-> cmdStr])
                        ELSE namedCommandBlocks
                   /\ UNCHANGED <<pc, ret, history>>
    /\ UNCHANGED <<bp, genFails, broken, sys, run, mode, header, namedBlocks,
                   bi, files, deferred, ran, trace, stdout, stderr>>

\* generateBashScript returns the header and the blocks to the command
GenReturn ==
    /\ pc = "gen"
    /\ gi > Len(blockGenerators)
    /\ header' = scriptHeader
    /\ namedBlocks' = namedCommandBlocks
    /\ pc' = IF mode = "bash" THEN "inspect" ELSE "check"
    /\ UNCHANGED <<bp, genFails, broken, sys, run, history, mode, gi, calls,
                   namedCommandBlocks, bi, files, deferred, ran, trace,
                   stdout, stderr, ret>>

\* the blocks joined by a single newline
fullScript_singleNewline(h, nbs) ==
    IF Len(nbs) > 0
    THEN h \o <<NL>> \o Join([i \in DOMAIN nbs |-> nbs[i].Commands], <<NL>>)
           \o <<NL>>
    ELSE h

\* the text bashCmd builds from the header and the blocks
fullScript(h, nbs) ==
    IF Len(nbs) > 0
    THEN LET keep == SelectSeq(nbs, LAMBDA nb : nb.Commands # <<>>)
             commandStrings == [i \in DOMAIN keep |-> keep[i].Commands]
         IN  h \o <<NL>> \o Join(commandStrings, <<NL, NL>>) \o <<NL>>
    ELSE h

\* fmt.Println(s)
Println(s) == s \o <<NL>>

\* bashCmd: print the script, run nothing
Inspect ==
    /\ pc = "inspect"
    /\ stdout' = stdout \o Println(fullScript(header, namedBlocks))
    /\ Return(Nil)
    /\ UNCHANGED <<bp, genFails, broken, sys, run, mode, gi, calls,
                   namedCommandBlocks, header, namedBlocks, bi, files,
                   deferred, ran, trace, stderr>>

RECURSIVE RunDeferred(_, _)
\* the deferred os.Remove calls, last registered first
RunDeferred(fs, d) ==
    IF d = <<>> THEN fs
    ELSE LET name == d[Len(d)]
         IN  RunDeferred([n \in DOMAIN fs \ {name} |-> fs[n]],
                         SubSeq(d, 1, Len(d) - 1))

RECURSIVE nextBlock(_, _)
\* the first index from k on whose block the loop does not skip
nextBlock(nbs, k) ==
    IF k > Len(nbs) THEN k
    ELSE IF IsBlank(nbs[k].Commands) THEN nextBlock(nbs, k + 1)
    ELSE k

\* a return that runs no deferred removal
ApplyReturn_noRemove(r) ==
    /\ Return(r)
    /\ UNCHANGED <<files, deferred>>

\* applyCmd returns r: the deferred removals run
ApplyReturn(r) ==
    /\ Return(r)
    /\ files' = RunDeferred(files, deferred)
    /\ deferred' = <<>>

\* an empty block list entering the loop
ApplyNoop_missing ==
    /\ pc = "check"
    /\ Len(namedBlocks) = 0
    /\ bi' = 1
    /\ pc' = "loop"
    /\ UNCHANGED <<bp, genFails, broken, sys, run, history, mode, gi, calls,
                   namedCommandBlocks, header, namedBlocks, files, deferred,
                   ran, trace, stdout, stderr, ret>>

ApplyNoop ==
    /\ pc = "check"
    /\ Len(namedBlocks) = 0
    /\ stdout' = stdout \o Println(<<"No configurations to apply.">>)
    /\ ApplyReturn(Nil)
    /\ UNCHANGED <<bp, genFails, broken, sys, run, mode, gi, calls,
                   namedCommandBlocks, header, namedBlocks, bi, ran, trace,
                   stderr>>

ApplyLoop ==
    /\ pc = "check"
    /\ Len(namedBlocks) # 0
    /\ bi' = nextBlock(namedBlocks, 1)
    /\ pc' = "loop"
    /\ UNCHANGED <<bp, genFails, broken, sys, run, history, mode, gi, calls,
                   namedCommandBlocks, header, namedBlocks, files, deferred,
                   ran, trace, stdout, stderr, ret>>

\* os.CreateTemp succeeds and the removal of the file is deferred
CreateTemp ==
    /\ pc = "loop"
    /\ bi <= Len(namedBlocks)
    /\ LET name == Len(deferred) + 1
       IN  /\ files' = files @@ (name :> [content |-> <<>>, perm |-> "0600"])
           /\ deferred' = Append(deferred, name)
    /\ stdout' = stdout \o <<"Applying:", namedBlocks[bi].Name, "...", NL>>
    /\ pc' = "created"
    /\ UNCHANGED <<bp, genFails, broken, sys, run, history, mode, gi, calls,
                   namedCommandBlocks, header, namedBlocks, bi, ran, trace,
                   stderr, ret>>

CreateTempFail ==
    /\ pc = "loop"
    /\ bi <= Len(namedBlocks)
    /\ stdout' = stdout \o <<"Applying:", namedBlocks[bi].Name, "...", NL>>
    /\ ApplyReturn(Errorf(<<"error creating temporary script for '",
                            namedBlocks[bi].Name, "'">>))
    /\ UNCHANGED <<bp, genFails, broken, sys, run, mode, gi, calls,
                   namedCommandBlocks, header, namedBlocks, bi, ran, trace,
                   stderr>>

\* header + "\n" + block.Commands
blockScript(h, block) == h \o <<NL>> \o block.Commands

\* WriteString, Close and Chmod succeed
WriteScript ==
    /\ pc = "created"
    /\ files' = [files EXCEPT ![Len(deferred)] =
                    [content |-> blockScript(header, namedBlocks[bi]),
                     perm |-> "0755"]]
    /\ pc' = "exec"
    /\ UNCHANGED <<bp, genFails, broken, sys, run, history, mode, gi, calls,
                   namedCommandBlocks, header, namedBlocks, bi, deferred, ran,
                   trace, stdout, stderr, ret>>

\* WriteString, Close or Chmod fails
WriteFail ==
    /\ pc = "created"
    /\ ApplyReturn(Errorf(<<"error preparing script for '",
                            namedBlocks[bi].Name, "'">>))
    /\ UNCHANGED <<bp, genFails, broken, sys, run, mode, gi, calls,
                   namedCommandBlocks, header, namedBlocks, bi, ran, trace,
                   stdout, stderr>>

\* execCmd.Run() on the temporary script: [exit, sys, log]
execFile(f) ==
    IF f.perm # "0755" THEN [exit |-> 126, sys |-> sys, log |-> <<>>]
    ELSE RunScript(f.content, sys, broken)

execRun == execFile(files[Len(deferred)])

\* the statements a script ran, tagged with the block they belong to
tagged(log, name) ==
    [i \in DOMAIN log |->
        [block |-> name, stmt |-> log[i].stmt, ok |-> log[i].ok,
         cmds |-> log[i].cmds]]

\* the loop passing over the block after the one that succeeded
ExecOk_skipNext ==
    /\ pc = "exec"
    /\ execRun.exit = 0
    /\ sys' = execRun.sys
    /\ trace' = trace \o tagged(execRun.log, namedBlocks[bi].Name)
    /\ ran' = Append(ran, [name |-> namedBlocks[bi].Name, exit |-> 0])
    /\ stdout' = stdout \o <<"Successfully applied:", namedBlocks[bi].Name, NL>>
    /\ bi' = nextBlock(namedBlocks, bi + 2)
    /\ pc' = "loop"
    /\ UNCHANGED <<bp, genFails, broken, run, history, mode, gi, calls,
                   namedCommandBlocks, header, namedBlocks, files, deferred,
                   stderr, ret>>

\* the script exits 0
ExecOk ==
    /\ pc = "exec"
    /\ execRun.exit = 0
    /\ sys' = execRun.sys
    /\ trace' = trace \o tagged(execRun.log, namedBlocks[bi].Name)
    /\ ran' = Append(ran, [name |-> namedBlocks[bi].Name, exit |-> 0])
    /\ stdout' = stdout \o <<"Successfully applied:", namedBlocks[bi].Name, NL>>
    /\ bi' = nextBlock(namedBlocks, bi + 1)
    /\ pc' = "loop"
    /\ UNCHANGED <<bp, genFails, broken, run, history, mode, gi, calls,
                   namedCommandBlocks, header, namedBlocks, files, deferred,
                   stderr, ret>>

\* what applyCmd writes to standard error for a block that failed
errorReport(block, exit) ==
    <<NL, "--- ERROR: Failed to apply '", block.Name, "' ---", NL,
      "Error details:", "exit status", FmtD(exit), NL,
      "Attempted commands for '", block.Name, "':", NL>>
      \o block.Commands \o <<NL, "--- END ERROR ---", NL>>

\* a failure that is reported without returning
ExecFail_continue ==
    /\ pc = "exec"
    /\ execRun.exit # 0
    /\ sys' = execRun.sys
    /\ trace' = trace \o tagged(execRun.log, namedBlocks[bi].Name)
    /\ ran' = Append(ran, [name |-> namedBlocks[bi].Name, exit |-> execRun.exit])
    /\ stderr' = stderr \o errorReport(namedBlocks[bi], execRun.exit)
    /\ bi' = nextBlock(namedBlocks, bi + 1)
    /\ pc' = "loop"
    /\ UNCHANGED <<bp, genFails, broken, run, history, mode, gi, calls,
                   namedCommandBlocks, header, namedBlocks, files, deferred,
                   stdout, ret>>

\* the script exits non-zero (or cannot be executed)
ExecFail ==
    /\ pc = "exec"
    /\ execRun.exit # 0
    /\ sys' = execRun.sys
    /\ trace' = trace \o tagged(execRun.log, namedBlocks[bi].Name)
    /\ ran' = Append(ran, [name |-> namedBlocks[bi].Name, exit |-> execRun.exit])
    /\ stderr' = stderr \o errorReport(namedBlocks[bi], execRun.exit)
    /\ ApplyReturn(Errorf(<<"execution failed for block '",
                            namedBlocks[bi].Name, "'">>))
    /\ UNCHANGED <<bp, genFails, broken, run, mode, gi, calls,
                   namedCommandBlocks, header, namedBlocks, bi, stdout>>

\* the loop is over
ApplyDone ==
    /\ pc = "loop"
    /\ bi > Len(namedBlocks)
    /\ stdout' = stdout \o Println(<<NL, "All configurations applied successfully.">>)
    /\ ApplyReturn(Nil)
    /\ UNCHANGED <<bp, genFails, broken, sys, run, mode, gi, calls,
                   namedCommandBlocks, header, namedBlocks, bi, ran, trace,
                   stderr>>

-----------------------------------------------------------------------------
(* Blueprints, systems and specifications *)

User(name, groups, password, key, home) ==
    [name |-> name, password |-> password, home |-> home, shell |-> <<>>,
     uid |-> <<>>, gid |-> <<>>, groups |-> groups, key |-> key]

alice == User("alice", <<"devs", "wheel">>, <<"$6$xyz">>, <<>>, <<>>)
bob == User("bob", <<>>, <<>>, <<"ssh-rsa AAAA">>, <<"/srv/bob">>)
carol == [User("carol", <<"devs">>, <<"">>, <<"ssh-ed25519 BBBB">>, <<"">>)
            EXCEPT !.shell = <<"/bin/zsh">>, !.uid = <<1001>>, !.gid = <<1001>>]

devs == [name |-> "devs", gid |-> <<>>]
ops == [name |-> "ops", gid |-> <<1000>>]

Firewall(ports, services) == <<[ports |-> ports, services |-> services]>>
Enabled(list) == <<[enabled |-> list]>>
Services(enabled, disabled, masked) ==
    <<[enabled |-> enabled, disabled |-> disabled, masked |-> masked]>>

\* blueprints for the runs of apply
ApplyDocs ==
    [hostname   : {<<>>, <<"my-server">>},
     timezone   : {<<>>},
     ntpServers : {<<>>},
     locale     : {<<>>},
     keyboard   : {<<>>},
     groups     : {<<>>, <<devs, ops>>},
     users      : {<<>>, <<alice, bob>>, <<carol>>},
     firewall   : {<<>>, Firewall(<<"80/tcp">>, Enabled(<<"http">>))},
     services   : {<<>>},
     packages   : {<<>>, <<"nginx">>}]

\* blueprints for the generators: every category absent, empty and present
CompileDocs ==
    [hostname   : {<<>>, <<"">>, <<"my-server">>},
     timezone   : {<<>>, <<"">>, <<"America/New_York">>},
     ntpServers : {<<>>, <<"pool.ntp.org", "time.example.org">>},
     locale     : {<<"">>, <<"en_US.UTF-8">>},
     keyboard   : {<<>>, <<"us">>},
     groups     : {<<>>, <<devs, ops>>},
     users      : {<<>>, <<alice, bob>>, <<carol>>},
     firewall   : {<<>>, Firewall(<<>>, <<>>), Firewall(<<>>, Enabled(<<>>)),
                   Firewall(<<"80/tcp", "443/tcp">>, Enabled(<<"http", "https">>))},
     services   : {<<>>, Services(<<>>, <<>>, <<>>),
                   Services(<<"nginx">>, <<"telnet">>, <<"rpcbind">>)},
     packages   : {<<>>, <<"nginx", "vim">>}]

\* target systems before the first run
Systems ==
    {[groups |-> {}, users |-> {}, chrony |-> <<>>, applied |-> {}],
     [groups |-> {}, users |-> {"alice", "bob", "carol"}, chrony |-> <<>>,
      applied |-> {}],
     [groups |-> {"devs", "wheel"}, users |-> {"alice", "bob", "carol"},
      chrony |-> <<>>, applied |-> {}]}

FaultSets == {B \in SUBSET Tools : Cardinality(B) <= MaxFaults}

Idle ==
    /\ run = 0
    /\ history = <<>>
    /\ mode = "none"
    /\ pc = "idle"
    /\ gi = 1
    /\ calls = <<>>
    /\ namedCommandBlocks = <<>>
    /\ header = <<>>
    /\ namedBlocks = <<>>
    /\ bi = 0
    /\ files = <<>>
    /\ deferred = <<>>
    /\ ran = <<>>
    /\ trace = <<>>
    /\ stdout = <<>>
    /\ stderr = <<>>
    /\ ret = NotReturned

Init ==
    /\ bp \in ApplyDocs
    /\ genFails = {}
    /\ broken \in FaultSets
    /\ sys \in Systems
    /\ Idle

\* one invocation of imagecfg
Next ==
    \/ InvokeBash
    \/ InvokeApply
    \/ LoadOk
    \/ LoadFail
    \/ GenStep
    \/ GenReturn
    \/ Inspect
    \/ ApplyNoop
    \/ ApplyLoop
    \/ CreateTemp
    \/ CreateTempFail
    \/ WriteScript
    \/ WriteFail
    \/ ExecOk
    \/ ExecFail
    \/ ApplyDone

Spec == Init /\ [][Next]_vars

\* imagecfg apply, run again with the same blueprint on the system the last
\* run left behind; the blueprint loads and the file operations succeed
NextTwice ==
    \/ InvokeApply
    \/ Reapply
    \/ LoadOk
    \/ GenStep
    \/ GenReturn
    \/ ApplyNoop
    \/ ApplyLoop
    \/ CreateTemp
    \/ WriteScript
    \/ ExecOk
    \/ ExecFail
    \/ ApplyDone

SpecTwice == Init /\ [][NextTwice]_vars

Fresh == [groups |-> {}, users |-> {}, chrony |-> <<>>, applied |-> {}]

InitCompile ==
    /\ bp \in CompileDocs
    /\ genFails = {}
    /\ broken = {}
    /\ sys = Fresh
    /\ Idle

\* imagecfg bash, on every blueprint of CompileDocs
NextCompile ==
    \/ InvokeBash
    \/ LoadOk
    \/ LoadFail
    \/ GenStep
    \/ GenReturn
    \/ Inspect

SpecCompile == InitCompile /\ [][NextCompile]_vars

\* The generators of the repository return a nil error on every path; the
\* orchestrator is written against func(*Blueprint) (string, error).  Here the
\* generators of the categories in genFails return an error instead.
InitGenContract ==
    /\ bp \in ApplyDocs
    /\ genFails \in {F \in SUBSET {"Packages", "Hostname", "Groups", "Users", "Services"} :
                        Cardinality(F) <= 2}
    /\ broken = {}
    /\ sys \in Systems
    /\ Idle

SpecGenContract == InitGenContract /\ [][Next]_vars

\* blueprints for the firewall generator: port lists and enabled-service
\* lists of different lengths, empty, absent, and with a repeated element
FirewallDocs ==
    [hostname   : {<<>>, <<"my-server">>},
     timezone   : {<<>>},
     ntpServers : {<<>>},
     locale     : {<<>>},
     keyboard   : {<<>>},
     groups     : {<<>>},
     users      : {<<>>},
     firewall   : {<<>>} \cup
                  {Firewall(p, sv) :
                     p \in {<<>>, <<"80/tcp">>, <<"80/tcp", "443/tcp">>,
                            <<"443/tcp", "53/udp", "80/tcp">>,
                            <<"80/tcp", "80/tcp">>},
                     sv \in {<<>>, Enabled(<<>>), Enabled(<<"http">>),
                             Enabled(<<"http", "https">>),
                             Enabled(<<"https", "http">>)}},
     services   : {<<>>, Services(<<"nginx">>, <<>>, <<>>)},
     packages   : {<<>>}]

InitFirewall ==
    /\ bp \in FirewallDocs
    /\ genFails = {}
    /\ broken = {}
    /\ sys = Fresh
    /\ Idle

\* imagecfg bash, on every blueprint of FirewallDocs
SpecFirewall == InitFirewall /\ [][NextCompile]_vars

\* blueprints for the Timezone block: no server, one, two, the same one
\* twice, and two names that differ in one character
TimezoneDocs ==
    [hostname   : {<<>>, <<"my-server">>},
     timezone   : {<<>>, <<"">>, <<"America/New_York">>},
     ntpServers : {<<>>, <<"pool.ntp.org">>, <<"pool.ntp.org", "ntp-1.lan">>,
                   <<"pool.ntp.org", "pool.ntp.org">>,
                   <<"ntp.1.lan", "ntp-1.lan">>, <<"ntp-1.lan", "ntp.1.lan">>},
     locale     : {<<>>},
     keyboard   : {<<>>},
     groups     : {<<>>},
     users      : {<<>>},
     firewall   : {<<>>},
     services   : {<<>>},
     packages   : {<<>>}]

\* /etc/chrony.conf before the first run: empty; with a line for a server of
\* the blueprint and a line of another kind; with the same server line twice
\* and a server line without options
ChronyFiles ==
    {<<>>,
     << <<"server", "pool.ntp.org", "iburst">>,
        <<"driftfile", "/var/lib/chrony/drift">> >>,
     << <<"server", "ntp-1.lan", "iburst">>, <<"server", "ntp-1.lan", "iburst">>,
        <<"server", "pool.ntp.org">> >>}

InitTimezone ==
    /\ bp \in TimezoneDocs
    /\ genFails = {}
    /\ broken \in {B \in FaultSets : B \subseteq {"timedatectl", "sed"}}
    /\ sys \in {[Fresh EXCEPT !.chrony = f] : f \in ChronyFiles}
    /\ Idle

\* imagecfg apply, run once or more, on every blueprint of TimezoneDocs
SpecTimezone == InitTimezone /\ [][NextTwice]_vars

\* imagecfg apply, once
NextApply ==
    \/ InvokeApply
    \/ LoadOk
    \/ LoadFail
    \/ GenStep
    \/ GenReturn
    \/ ApplyNoop
    \/ ApplyLoop
    \/ CreateTemp
    \/ CreateTempFail
    \/ WriteScript
    \/ WriteFail
    \/ ExecOk
    \/ ExecFail
    \/ ApplyDone

\* The steps of RunE itself: everything but the return of execCmd.Run().
RunEStep ==
    \/ InvokeApply
    \/ LoadOk
    \/ LoadFail
    \/ GenStep
    \/ GenReturn
    \/ ApplyNoop
    \/ ApplyLoop
    \/ CreateTemp
    \/ CreateTempFail
    \/ WriteScript
    \/ WriteFail
    \/ ApplyDone

\* RunE is one goroutine that takes its next step whenever it has one, and
\* every script that is started terminates: execCmd.Run() returns, with exit
\* status 0 (ExecOk) or not (ExecFail).
SpecApply ==
    /\ Init /\ [][NextApply]_vars
    /\ WF_vars(RunEStep)
    /\ []<>(pc # "exec")

-----------------------------------------------------------------------------
(* Properties *)

\* the category order the design fixes
FixedOrder ==
    <<"Packages", "Hostname", "Timezone", "Locale",
      "Groups", "Users", "Firewall", "Services">>

Pos(name) == CHOOSE i \in DOMAIN FixedOrder : FixedOrder[i] = name

Names(nbs) == {nbs[i].Name : i \in DOMAIN nbs}

\* generateBashScript has returned its header and blocks to the command
Compiled == header # <<>>

\* C1: the names of the returned blocks are a subsequence of the fixed list:
\* they are names of the list, in strictly increasing position (so in the
\* list's order and without repetition), and a category is missing exactly
\* when its generator returned the empty string.
C1_BlocksFollowFixedOrder ==
    Compiled =>
        /\ \A i \in DOMAIN namedBlocks :
              \E k \in DOMAIN FixedOrder : FixedOrder[k] = namedBlocks[i].Name
        /\ \A i, j \in DOMAIN namedBlocks :
              i < j => Pos(namedBlocks[i].Name) < Pos(namedBlocks[j].Name)
        /\ \A k \in DOMAIN FixedOrder :
              (FixedOrder[k] \notin Names(namedBlocks))
                  <=> (generator(FixedOrder[k], bp) = <<>>)

\* a compiled list with gaps at the start, in the middle and at the end
C1_Witness ==
    /\ Compiled
    /\ Names(namedBlocks) = {"Hostname", "Groups", "Users", "Firewall"}

IsUnset(ptr) == ptr = <<>> \/ ptr[1] = ""

NoFirewallRules(fw) ==
    \/ fw = <<>>
    \/ /\ fw[1].ports = <<>>
       /\ (fw[1].services = <<>> \/ fw[1].services[1].enabled = <<>>)

NoServiceActions(sv) ==
    \/ sv = <<>>
    \/ (sv[1].enabled = <<>> /\ sv[1].disabled = <<>> /\ sv[1].masked = <<>>)

EmptyDocument(b) ==
    /\ IsUnset(b.hostname)
    /\ IsUnset(b.timezone) /\ b.ntpServers = <<>>
    /\ IsUnset(b.locale) /\ IsUnset(b.keyboard)
    /\ b.groups = <<>>
    /\ b.users = <<>>
    /\ NoFirewallRules(b.firewall)
    /\ NoServiceActions(b.services)
    /\ b.packages = <<>>

\* C2: every generator returns the empty string when its category is absent
\* or all of its inputs are empty, an empty document compiles to an empty
\* block list, and no returned block has empty commands.
C2_EmptyInputEmptyResult ==
    /\ IsUnset(bp.hostname) => generateHostnameCmd(bp) = <<>>
    /\ (IsUnset(bp.timezone) /\ bp.ntpServers = <<>>)
          => generateTimezoneCmd(bp) = <<>>
    /\ (IsUnset(bp.locale) /\ IsUnset(bp.keyboard))
          => generateLocaleCmd(bp) = <<>>
    /\ bp.groups = <<>> => generateGroupsBlockCmd(bp) = <<>>
    /\ bp.users = <<>> => generateUsersBlockCmd(bp) = <<>>
    /\ NoFirewallRules(bp.firewall) => generateFirewallCmd(bp) = <<>>
    /\ NoServiceActions(bp.services) => generateServicesCmd(bp) = <<>>
    /\ bp.packages = <<>> => generatePackagesCmd(bp) = <<>>
    /\ (Compiled /\ EmptyDocument(bp)) => namedBlocks = <<>>
    /\ \A i \in DOMAIN namedBlocks : ~IsBlank(namedBlocks[i].Commands)

\* a document that is empty without being absent: an empty hostname, an
\* empty firewall section and three empty service lists, compiled
C2_Witness ==
    /\ Compiled
    /\ EmptyDocument(bp)
    /\ bp.hostname = <<"">>
    /\ bp.timezone = <<"">>
    /\ bp.firewall = Firewall(<<>>, Enabled(<<>>))
    /\ bp.services = Services(<<>>, <<>>, <<>>)
    /\ namedBlocks = <<>>
    /\ pc = "done"

-----------------------------------------------------------------------------
(* Properties of apply *)

Count(text, w) == Cardinality({i \in DOMAIN text : text[i] = w})

RECURSIVE Flatten(_)
Flatten(ss) == IF ss = <<>> THEN <<>> ELSE Head(ss) \o Flatten(Tail(ss))

\* the statements of a block's commands: the elements of the && lists of its
\* lines, in order
StmtsOf(cmds) ==
    LET lines == Split(cmds, NL)
    IN  Flatten([i \in DOMAIN lines |-> Split(lines[i], AND)])

BlockNamed(name) ==
    namedBlocks[CHOOSE i \in DOMAIN namedBlocks : namedBlocks[i].Name = name]

EntriesOf(name) == SelectSeq(trace, LAMBDA e : e.block = name)

\* every statement of the block was run and succeeded
AllStatementsSucceeded(name) ==
    LET es == EntriesOf(name)
    IN  /\ [i \in DOMAIN es |-> es[i].stmt] = StmtsOf(BlockNamed(name).Commands)
        /\ \A i \in DOMAIN es : es[i].ok

\* the effect of a command that succeeded is present on the system
EffectInPlace(c) ==
    CASE c.cmd[1] = "getent" -> TRUE
      [] c.cmd[1] = "groupadd" -> c.cmd[Len(c.cmd)] \in sys.groups
      [] c.cmd[1] = "useradd" ->
           operands(Tail(c.cmd), {"-d", "-s", "-u", "-g"}, {"-m"})[1] \in sys.users
      [] OTHER -> c.cmd \in sys.applied

\* C3: when the script of block i exits non-zero, exactly one failure is
\* reported and it names block i, block i is the last block materialized and
\* run, what the earlier blocks did is still in place, and Apply has returned
\* the error naming block i.
C3_FailFast ==
    \A k \in DOMAIN ran :
        ran[k].exit # 0 =>
            /\ k = Len(ran)
            /\ pc = "done"
            /\ ran[k].name = namedBlocks[bi].Name
            /\ ret = Errorf(<<"execution failed for block '", ran[k].name, "'">>)
            /\ Count(stderr, "--- ERROR: Failed to apply '") = 1
            /\ \A i \in DOMAIN stderr :
                  stderr[i] = "--- ERROR: Failed to apply '"
                      => stderr[i + 1] = ran[k].name
            /\ Count(stdout, "Applying:") = k
            /\ k = bi
            /\ \A i \in DOMAIN trace :
                  /\ \E j \in 1..k : ran[j].name = trace[i].block
                  /\ \A c \in DOMAIN trace[i].cmds :
                        trace[i].cmds[c].ok => EffectInPlace(trace[i].cmds[c])
            /\ \A j \in 1..(k - 1) :
                  /\ ran[j].exit = 0
                  /\ ran[j].name = namedBlocks[j].Name

\* three blocks or more, the first applied, the second failed
C3_Witness ==
    /\ Len(namedBlocks) >= 3
    /\ Len(ran) = 2
    /\ ran[1].exit = 0
    /\ ran[2].exit # 0
    /\ sys.applied # {}
    /\ pc = "done"

C5_NoFailurePassedOver ==
    \A k \in DOMAIN ran :
        /\ ran[k].exit = 0 => AllStatementsSucceeded(ran[k].name)
        /\ (\E i \in DOMAIN trace : trace[i].block = ran[k].name /\ ~trace[i].ok)
              => (ran[k].exit # 0 /\ pc = "done" /\ k = Len(ran))

\* a guarded creation: ( getent ... || groupadd/useradd ... )
IsGuard(e) == e.stmt[1] = "("

\* the previous run was an apply that returned without error
AppliedBefore ==
    /\ Len(history) >= 1
    /\ run = Len(history) + (IF pc = "done" THEN 0 ELSE 1)
    /\ LET last == IF pc = "done" THEN Len(history) - 1 ELSE Len(history)
       IN  last >= 1 /\ history[last] = [mode |-> "apply", ret |-> Nil]

\* C6: a guarded creation whose group or account exists succeeds without
\* running groupadd or useradd; and when the blueprint is applied again after
\* an apply that completed, groupadd is not run, useradd is not run for an
\* account that exists, every line of the Groups and of the Users block is
\* run, and both blocks succeed.
C6_ApplyTwice ==
    /\ \A i \in DOMAIN trace :
          (IsGuard(trace[i]) /\ trace[i].cmds[1].ok)
              => (trace[i].ok /\ Len(trace[i].cmds) = 1)
    /\ AppliedBefore =>
          /\ \A i \in DOMAIN trace :
                \A c \in DOMAIN trace[i].cmds :
                    trace[i].cmds[c].cmd[1] # "groupadd"
          /\ \A i \in DOMAIN trace :
                (IsGuard(trace[i]) /\ trace[i].stmt[3] = "passwd"
                    /\ trace[i].stmt[4] \in sys.users)
                    => Len(trace[i].cmds) = 1
          /\ \A k \in DOMAIN ran :
                /\ ran[k].name \in {"Groups", "Users"} => ran[k].exit = 0
                /\ ran[k].name = "Groups"
                      => Len(EntriesOf("Groups")) = Len(bp.groups)
                /\ ran[k].name = "Users"
                      => Len(SelectSeq(EntriesOf("Users"), IsGuard)) = Len(bp.users)

\* the second apply has completed on a system whose group ops the first
\* apply created, with a Groups and a Users block
C6_Witness ==
    /\ AppliedBefore
    /\ pc = "done"
    /\ ret = Nil
    /\ "ops" \in sys.groups
    /\ \E j, k \in DOMAIN ran : ran[j].name = "Groups" /\ ran[k].name = "Users"

\* C7: with an empty block list Apply prints the no-op message and returns
\* nil, having created no script and run nothing.
C7_EmptyListIsNoop ==
    (mode = "apply" /\ Compiled /\ namedBlocks = <<>>) =>
        /\ pc \in {"check", "done"}
        /\ files = <<>>
        /\ Count(stdout, "Applying:") = 0
        /\ ran = <<>>
        /\ trace = <<>>
        /\ stderr = <<>>
        /\ pc = "done" =>
              (ret = Nil /\ stdout = <<"No configurations to apply.", NL>>)

C7_Witness ==
    /\ mode = "apply"
    /\ Compiled
    /\ namedBlocks = <<>>
    /\ pc = "done"

\* every group the blueprint names exists and no statement of Groups failed
GroupsDone ==
    /\ \A i \in DOMAIN bp.groups : bp.groups[i].name \in sys.groups
    /\ AllStatementsSucceeded("Groups")

\* C10: Users runs only after Groups has run and succeeded (when the
\* blueprint has groups), every block other than Packages runs only after
\* Packages has run and succeeded (when it has packages), and after a failure
\* of Groups or Packages no block is run.
C10_GroupsAndPackagesFirst ==
    \A k \in DOMAIN ran :
        /\ (ran[k].name = "Users" /\ bp.groups # <<>>) =>
              /\ \E j \in 1..(k - 1) : ran[j].name = "Groups" /\ ran[j].exit = 0
              /\ GroupsDone
        /\ (ran[k].name # "Packages" /\ bp.packages # <<>>) =>
              /\ ran[1].name = "Packages" /\ ran[1].exit = 0
              /\ AllStatementsSucceeded("Packages")
        /\ (ran[k].name \in {"Groups", "Packages"}
              /\ (ran[k].exit # 0 \/ ~AllStatementsSucceeded(ran[k].name)))
              => (k = Len(ran) /\ pc = "done" /\ ret.err # <<>>)

\* Packages, Groups, Users and one more block have run
C10_Witness ==
    /\ Len(ran) >= 4
    /\ {"Packages", "Groups", "Users"} \subseteq {ran[k].name : k \in DOMAIN ran}

-----------------------------------------------------------------------------
(* Properties of the orchestrator's error path and of the bash command *)

\* C8: the generators are called in the fixed order, each at most once; a
\* generator that reports an error is the last one called, RunE returns an
\* error naming its category, the command receives no header and no blocks,
\* and nothing is printed or executed.
C8_GeneratorErrorAborts ==
    /\ Len(calls) <= Len(FixedOrder)
    /\ \A i \in DOMAIN calls : calls[i] = FixedOrder[i]
    /\ \A i \in DOMAIN calls :
          calls[i] \in genFails =>
              /\ i = Len(calls)
              /\ pc = "done"
              /\ ret.returned
              /\ \E w \in DOMAIN ret.err : ret.err[w] = calls[i]
              /\ header = <<>>
              /\ namedBlocks = <<>>
              /\ stdout = <<>>
              /\ stderr = <<>>
              /\ files = <<>>
              /\ ran = <<>>
              /\ trace = <<>>
              /\ sys.applied = {}

\* apply: the generator of Groups reported an error after Packages and
\* Hostname had produced blocks
C8_Witness ==
    /\ mode = "apply"
    /\ calls = <<"Packages", "Hostname", "Timezone", "Locale", "Groups">>
    /\ "Groups" \in genFails
    /\ Len(namedCommandBlocks) = 2
    /\ pc = "done"

FixedHeader == <<"#!/bin/bash", NL, "set", "-euf", "-o", "pipefail", NL, NL>>

RECURSIVE FirstWord(_, _)
\* the first position from k on that holds a word other than a newline
FirstWord(text, k) ==
    IF k > Len(text) \/ text[k] # NL THEN k ELSE FirstWord(text, k + 1)

RECURSIVE BlocksAt(_, _, _, _)
\* from position k on, text is the commands of nbs[i..], each separated from
\* the next by exactly one blank line, followed by newlines only
BlocksAt(text, k, nbs, i) ==
    IF i > Len(nbs) THEN \A j \in k..Len(text) : text[j] = NL
    ELSE LET c == nbs[i].Commands
             e == k + Len(c) - 1
         IN  /\ e <= Len(text)
             /\ SubSeq(text, k, e) = c
             /\ IF i = Len(nbs) THEN BlocksAt(text, e + 1, nbs, i + 1)
                ELSE /\ e + 3 <= Len(text)
                     /\ text[e + 1] = NL
                     /\ text[e + 2] = NL
                     /\ text[e + 3] # NL
                     /\ BlocksAt(text, e + 3, nbs, i + 1)

\* the commands hold no blank line and neither start nor end with a newline
NoBlankLine(c) ==
    /\ c # <<>> /\ c[1] # NL /\ c[Len(c)] # NL
    /\ \A j \in 1..(Len(c) - 1) : ~(c[j] = NL /\ c[j + 1] = NL)

\* C9: what the bash command prints begins with the fixed header and goes on
\* with the commands of every compiled block, in compiled order, one blank
\* line between two blocks; with no blocks it is the header (and the newline
\* of Println); and the command executes nothing.
C9_InspectArtifact ==
    /\ (mode = "bash" /\ pc = "done" /\ ret = Nil) =>
          /\ Len(stdout) >= Len(FixedHeader)
          /\ SubSeq(stdout, 1, Len(FixedHeader)) = FixedHeader
          /\ \A i \in DOMAIN namedBlocks : NoBlankLine(namedBlocks[i].Commands)
          /\ BlocksAt(stdout, FirstWord(stdout, Len(FixedHeader) + 1),
                      namedBlocks, 1)
          /\ namedBlocks = <<>> => stdout = FixedHeader \o <<NL>>
    /\ mode = "bash" =>
          /\ files = <<>>
          /\ ran = <<>>
          /\ trace = <<>>
          /\ stderr = <<>>
          /\ sys = Fresh

\* a blueprint with all eight categories, printed
C9_Witness ==
    /\ mode = "bash"
    /\ pc = "done"
    /\ ret = Nil
    /\ Len(namedBlocks) = 8
    /\ Len(bp.users) = 2

-----------------------------------------------------------------------------
(* Properties of the apply run as a state machine *)

\* block k of the compiled list, run with exit status 0
Applied(k) == [name |-> namedBlocks[k].Name, exit |-> 0]

\* Apply returned nil: every compiled block ran once, in compiled order, and
\* exited 0
Completed ==
    /\ mode = "apply" /\ Compiled /\ pc = "done"
    /\ ret = Nil
    /\ Len(ran) = Len(namedBlocks)
    /\ \A k \in DOMAIN namedBlocks : ran[k] = Applied(k)
    /\ Count(stdout, "Applying:") = Len(namedBlocks)
    /\ stderr = <<>>

\* Apply returned an error at block bi: the blocks before it ran once each, in
\* order, and exited 0, no block after it was started, and the error names
\* block bi; when its script ran, the report on standard error names it too
Halted ==
    /\ mode = "apply" /\ Compiled /\ pc = "done"
    /\ ret.returned /\ ret.err # <<>>
    /\ bi \in DOMAIN namedBlocks
    /\ \E w \in DOMAIN ret.err : ret.err[w] = namedBlocks[bi].Name
    /\ \A k \in 1..(bi - 1) : ran[k] = Applied(k)
    /\ Count(stdout, "Applying:") = bi
    /\ Count(stdout, "Successfully applied:") = bi - 1
    /\ \/ /\ Len(ran) = bi
          /\ ran[bi].name = namedBlocks[bi].Name
          /\ ran[bi].exit # 0
          /\ stderr = errorReport(namedBlocks[bi], ran[bi].exit)
       \/ /\ Len(ran) = bi - 1
          /\ stderr = <<>>

\* what holds of the blocks run so far, in every state of an apply run
OneAtATimeInOrder ==
    /\ Len(ran) <= Len(namedBlocks)
    /\ \A k \in DOMAIN ran : ran[k].name = namedBlocks[k].Name
    /\ \A j, k \in DOMAIN ran : j # k => ran[j].name # ran[k].name
    /\ \A j, k \in DOMAIN namedBlocks :
          j # k => namedBlocks[j].Name # namedBlocks[k].Name
    /\ \A k \in 1..(Len(ran) - 1) : ran[k].exit = 0
    /\ Count(stdout, "Applying:") - Len(ran) \in {0, 1}
    /\ pc = "exec" <=> (mode = "apply" /\ ~ret.returned
                          /\ Count(stdout, "Applying:") = Len(ran) + 1
                          /\ files[Len(deferred)].perm = "0755")

ApplyTerminal ==
    (mode = "apply" /\ Compiled /\ pc = "done") =>
        /\ Completed \/ Halted
        /\ ~(Completed /\ Halted)

\* C11: an apply run whose blocks have been compiled ends, and it ends either
\* Completed (nil returned, every compiled block run exactly once, in compiled
\* order, each exiting 0) or Halted (an error returned at the first block that
\* failed, naming that block, whose position in the compiled list the name
\* determines because names are distinct; no later block started).  In every
\* state at most one block is started and not finished, the blocks run so far
\* are a prefix of the compiled list, and no block has run twice.
C11_TwoTerminalStates ==
    /\ [](OneAtATimeInOrder /\ ApplyTerminal)
    /\ ((mode = "apply" /\ Compiled) ~> (Completed \/ Halted))

\* Halted at the third of four blocks or more, after two blocks applied
C11_Witness ==
    /\ Halted
    /\ bi = 3
    /\ Len(ran) = 3
    /\ Len(namedBlocks) >= 4

-----------------------------------------------------------------------------
(* Properties of the Firewall block *)

\* the port list and the enabled-service list of the firewall section
PortsOf(b) == IF b.firewall = <<>> THEN <<>> ELSE b.firewall[1].ports

EnabledOf(b) ==
    IF b.firewall = <<>> \/ b.firewall[1].services = <<>> THEN <<>>
    ELSE b.firewall[1].services[1].enabled

AddPort(port) == <<"firewall-offline-cmd", "--add-port=", port>>
AddService(service) == <<"firewall-offline-cmd", "--add-service=", service>>

\* C12: for a firewall section with port list P and enabled-service list S,
\* not both empty, the compiled list has a Firewall block; it is one line, an
\* && chain of exactly Len(P) + Len(S) statements: the add-port statement of
\* P[i] at position i, the add-service statement of S[i] at position
\* Len(P) + i; so no add-service statement stands before an add-port statement.
C12_FirewallChain ==
    (Compiled /\ Len(PortsOf(bp)) + Len(EnabledOf(bp)) > 0) =>
        /\ "Firewall" \in Names(namedBlocks)
        /\ BlockNamed("Firewall").Commands = generateFirewallCmd(bp)
        /\ Count(BlockNamed("Firewall").Commands, NL) = 0
        /\ LET P == PortsOf(bp)
               S == EnabledOf(bp)
               stmts == Split(BlockNamed("Firewall").Commands, AND)
           IN  /\ Len(stmts) = Len(P) + Len(S)
               /\ \A i \in DOMAIN P : stmts[i] = AddPort(P[i])
               /\ \A i \in DOMAIN S : stmts[Len(P) + i] = AddService(S[i])
               /\ \A i \in DOMAIN stmts :
                     \A j \in DOMAIN stmts :
                        (stmts[i][2] = "--add-service="
                            /\ stmts[j][2] = "--add-port=") => j < i

\* three ports and two services, in an order that is not the sorted one,
\* with a Services block after the Firewall block
C12_Witness ==
    /\ Compiled
    /\ pc = "done"
    /\ PortsOf(bp) = <<"443/tcp", "53/udp", "80/tcp">>
    /\ EnabledOf(bp) = <<"https", "http">>
    /\ Names(namedBlocks) = {"Hostname", "Firewall", "Services"}

-----------------------------------------------------------------------------
(* Properties of the Users block *)

\* the directory the SSH sequence is to use
HomeFor(u) ==
    IF u.home # <<>> /\ u.home[1] # "" THEN <<u.home[1]>>
    ELSE <<"/home/", u.name>>

\* mkdir, key file, chmod 700, chmod 600, chown to name:name, all under dir
SshSequence(u, dir) ==
    << <<"mkdir", "-p">> \o dir \o <<"/.ssh">>,
       <<"echo", "'", u.key[1], "'", PIPE, "tee">> \o dir
           \o <<"/.ssh/authorized_keys", ">", "/dev/null">>,
       <<"chmod", "700">> \o dir \o <<"/.ssh">>,
       <<"chmod", "600">> \o dir \o <<"/.ssh/authorized_keys">>,
       <<"chown", "-R", u.name, ":", u.name>> \o dir \o <<"/.ssh">> >>

\* the statements that are to follow the guarded creation
AfterCreation(u) ==
    (IF u.groups # <<>>
     THEN << <<"usermod", "-aG">> \o Join(Strs(u.groups), <<",">>) \o <<u.name>> >>
     ELSE <<>>)
      \o (IF ~IsUnset(u.password)
          THEN << <<"echo", "'", u.name, ":", u.password[1], "'",
                    PIPE, "chpasswd", "-e">> >>
          ELSE <<>>)
      \o (IF ~IsUnset(u.key) THEN SshSequence(u, HomeFor(u)) ELSE <<>>)

\* ( getent passwd name > /dev/null || useradd ... )
IsGuardedCreation(stmt, name) ==
    /\ Len(stmt) >= 9
    /\ SubSeq(stmt, 1, 8) =
          <<"(", "getent", "passwd", name, ">", "/dev/null", OR, "useradd">>
    /\ stmt[Len(stmt)] = ")"

\* one line per user, in document order; each line the guarded creation
\* followed by the group, password and SSH statements the user calls for
UsersLineStructure ==
    (Compiled /\ bp.users # <<>>) =>
        /\ "Users" \in Names(namedBlocks)
        /\ LET lines == Split(BlockNamed("Users").Commands, NL)
           IN  /\ Len(lines) = Len(bp.users)
               /\ \A i \in DOMAIN bp.users :
                     /\ IsGuardedCreation(Split(lines[i], AND)[1], bp.users[i].name)
                     /\ Tail(Split(lines[i], AND)) = AfterCreation(bp.users[i])

\* a guarded creation that has run with a working useradd has succeeded, and
\* the account it is for exists
GuardedCreationCreates ==
    \A i \in DOMAIN trace :
        (trace[i].block = "Users" /\ IsGuard(trace[i]) /\ "useradd" \notin broken)
            => (trace[i].ok /\ trace[i].stmt[4] \in sys.users)

\* C13: the Users block has one line per user, in document order; each line
\* is an && chain of the guarded creation, then the add-to-groups statement
\* (if groups are given), then the pre-hashed password statement (if a
\* password is given), then the SSH sequence (if a key is given), the SSH
\* sequence using one directory, the explicit home or /home/<name>, and
\* chowning to <name>:<name>; and the guarded creation is one: it leaves the
\* account in existence, creating it when it is absent.
C13_UsersLines == UsersLineStructure /\ GuardedCreationCreates

-----------------------------------------------------------------------------
(* Properties of the Timezone block *)

SetZone(tz) == <<"timedatectl", "set-timezone", tz>>
RemoveServer(ntp) == <<"sed", "-i", "'/^server", ntp, "/d'", "/etc/chrony.conf">>
AppendServer(ntp) == <<"echo", "'server", ntp, "iburst'", ">>", "/etc/chrony.conf">>

\* the number of statements before the first NTP statement
ZoneStmts(b) == IF IsUnset(b.timezone) THEN 0 ELSE 1

\* the zone selection first, then for each server, in document order, its
\* removal immediately followed by its append, and nothing else
TimezoneStructure ==
    (Compiled /\ ZoneStmts(bp) + Len(bp.ntpServers) > 0) =>
        /\ "Timezone" \in Names(namedBlocks)
        /\ LET stmts == StmtsOf(BlockNamed("Timezone").Commands)
               z == ZoneStmts(bp)
           IN  /\ Len(stmts) = z + 2 * Len(bp.ntpServers)
               /\ z = 1 => stmts[1] = SetZone(bp.timezone[1])
               /\ \A i \in DOMAIN bp.ntpServers :
                     /\ stmts[z + 2 * i - 1] = RemoveServer(bp.ntpServers[i])
                     /\ stmts[z + 2 * i] = AppendServer(bp.ntpServers[i])

\* chrony.conf holds exactly one line 'server S iburst'
OneServerLine(S) ==
    Cardinality({i \in DOMAIN sys.chrony :
                    sys.chrony[i] = <<"server", S, "iburst">>}) = 1

\* C14: in the Timezone block the zone selection comes first and each
\* server, in document order, has its removal immediately before its append,
\* two statements per server; and once the block has been applied with exit
\* status 0, once or more, chrony.conf holds exactly one 'server S iburst'
\* line for each configured server S.
C14_OneLinePerServer ==
    /\ TimezoneStructure
    /\ (\E k \in DOMAIN ran : ran[k] = [name |-> "Timezone", exit |-> 0])
          => \A i \in DOMAIN bp.ntpServers : OneServerLine(bp.ntpServers[i])

====
